---- MODULE Spec2Model ----
(***************************************************************************)
(* A model of the Bootstrap web components of this repository: the         *)
(* deferred-render lifecycle of a plugin-backed custom element             *)
(* (connectedCallback / setTimeout / _render / show / hide / toggle /      *)
(* dispose / disconnectedCallback), the redistribution of the host's       *)
(* children into the generated markup, and the injection of shared         *)
(* resources by bs-code-block.                                             *)
(*                                                                         *)
(* The specifications of the module:                                       *)
(*   Spec            one plugin-backed instance and the library objects    *)
(*                   bound to its node (variables w, call);                *)
(*   SpecSlots       one slot-distributing instance with its children      *)
(*                   (variable sl);                                        *)
(*   SpecRes         several bs-code-block instances and the document      *)
(*                   head (variable doc);                                  *)
(*   SpecMain        one main-container (variable mc), FairSpecMain with   *)
(*                   fair timers;                                          *)
(*   SpecTheme       two theme-toggle instances, localStorage and the root *)
(*                   element (variable th), SpecThemeSync without the      *)
(*                   steps of other documents and scripts;                 *)
(*   SpecBatch       a container of tooltips and the batch operations of   *)
(*                   BsTooltip (variable tb);                              *)
(*   SpecButton      one loading-button (variable lb);                     *)
(*   SpecPlaceholder a container and BsPlaceholder.placeholderize /        *)
(*                   restore (variable ph).                                *)
(* Each specification leaves the other specifications' variables idle.     *)
(***************************************************************************)
EXTENDS Integers, Sequences, FiniteSets, TLC

VARIABLES w, call, sl, doc, mc, th, tb, lb, ph

vars == <<w, call, sl, doc, mc, th, tb, lb, ph>>

(***************************************************************************)
(* Bounds of the model.                                                    *)
(***************************************************************************)
\* pending zero-delay timers of one instance (connectedCallback calls before a render)
MaxTimers == 2
\* plugin objects constructed for the instance's node during one behaviour
MaxPlugins == 3
\* BsTooltip.reinit() calls during one behaviour
MaxReinits == 1

(***************************************************************************)
(* PART 1.  Lifecycle of one plugin-backed instance.                       *)
(*                                                                         *)
(* w is the program state:                                                 *)
(*   kind         the custom element's tag                                 *)
(*   lib          window.bootstrap (and the kind's constructor) is present *)
(*   attached     the element is connected to the document                 *)
(*   initialized  this._initialized                                        *)
(*   handle       this.modal / this.toast / this.collapse / this.alert /   *)
(*                this.carousel / this.tooltip: 0 is null, p > 0 is the    *)
(*                p-th plugin object constructed                           *)
(*   timers       callbacks scheduled by setTimeout(..., 0), not yet run   *)
(*   plugins      the plugin objects constructed so far, each "live",      *)
(*                "disposed" (dispose ran once) or "redisposed" (dispose   *)
(*                was invoked again on the disposed object)                *)
(*   registry     the library's per-node registry entry for the node the   *)
(*                plugin is bound to (0: none)                             *)
(*   own          the plugin objects the component constructed itself      *)
(*                (the others were made by the library's get-or-create)    *)
(*   shown        (bs-tooltip) the plugin objects whose tip is displayed   *)
(*   hiding       (bs-tooltip) the plugin objects with a hide transition   *)
(*                in flight: its completion callback is still pending      *)
(*   marked       (bs-tooltip) the plugin objects whose isWithActiveTrigger*)
(*                property the component has replaced                      *)
(*   honoured     the library's completion callback consults that property *)
(*                before it touches the object's state (the library is     *)
(*                not part of the repository: both kinds are considered)   *)
(*   builds       how many times the body of _render after the             *)
(*                _initialized guard has run                               *)
(*   reinits      how many times reinit() has run                          *)
(*   cycled       a disconnectedCallback has run since materialization     *)
(*   touched      the element is detached and a method of the component    *)
(*                has been called on it since it was detached              *)
(*   error        some handler has thrown                                  *)
(* call describes the method or lifecycle hook that the last step ran, if  *)
(* the last step was one: its name, the state it started in, and the       *)
(* plugin object it was delegated to (0: none).                            *)
(***************************************************************************)
Kinds == {"bs-modal", "bs-toast", "bs-accordion-item", "bs-alert", "bs-carousel", "bs-tooltip"}

\* The pass-through methods each component offers (dispose and reinit are separate actions).
Methods(kind) ==
  CASE kind = "bs-modal" -> {"show", "hide", "toggle", "handleUpdate"}
    [] kind = "bs-toast" -> {"show", "hide"}
    [] kind = "bs-accordion-item" -> {"show", "hide", "toggle"}
    [] kind = "bs-alert" -> {"close"}
    [] kind = "bs-carousel" -> {"cycle", "pause", "next", "prev", "to"}
    [] kind = "bs-tooltip" -> {"show", "hide", "toggle", "update"}

AllMethods == UNION {Methods(k) : k \in Kinds}

\* Whether the method starts with a call of the component's _ensure... helper.
Ensures(kind, op) ==
  CASE kind = "bs-modal" -> op \in {"show", "toggle"}
    [] kind = "bs-toast" -> op \in {"show", "hide"}
    [] kind = "bs-accordion-item" -> op \in {"show", "hide", "toggle"}
    [] kind = "bs-alert" -> op = "close"
    [] kind = "bs-carousel" -> TRUE
    [] kind = "bs-tooltip" -> FALSE

\* ---- the library, as the components use it ----

\* new bootstrap.X(el): a new live object, which the library registers for el.
\* Without the library the expression throws a ReferenceError.
NewPlugin(s) ==
  IF ~s.lib
    THEN [s EXCEPT !.error = TRUE]
    ELSE [s EXCEPT !.plugins = Append(@, "live"),
                   !.registry = Len(s.plugins) + 1,
                   !.handle = Len(s.plugins) + 1,
                   !.own = @ \cup {Len(s.plugins) + 1}]

\* bootstrap.X.getOrCreateInstance(el): the object registered for el, or a new one
\* made by the library; the result is the registry entry of the returned state.
GetOrCreateInstance(s) ==
  IF s.registry # 0
    THEN s
    ELSE [s EXCEPT !.plugins = Append(@, "live"),
                   !.registry = Len(s.plugins) + 1]

\* p.dispose(): the object releases its node and leaves the registry; invoked on an
\* object that is already disposed it works on the object's nulled fields and throws.
PluginDispose(s, p) ==
  IF s.plugins[p] = "live"
    THEN [s EXCEPT !.plugins[p] = "disposed", !.registry = 0, !.shown = @ \ {p}]
    ELSE [s EXCEPT !.plugins[p] = "redisposed", !.error = TRUE]

\* p.show() / p.hide() / p.toggle() / ...: delegated to a live object; a disposed
\* object has no node any more and throws.
PluginCall(s, p) ==
  IF s.plugins[p] = "live" THEN s ELSE [s EXCEPT !.error = TRUE]

\* what p.show() / p.hide() / p.toggle() of a live tooltip does to its tip: hide()
\* of a displayed tip starts the hide transition and queues its completion callback
Transition(s, p, op) ==
  LET hides == p \in s.shown /\ op \in {"hide", "toggle"}
      shows == p \notin s.shown /\ op \in {"show", "toggle"}
  IN IF s.kind # "bs-tooltip" \/ s.plugins[p] # "live" THEN s
     ELSE IF hides THEN [s EXCEPT !.shown = @ \ {p}, !.hiding = @ \cup {p}]
     ELSE IF shows THEN [s EXCEPT !.shown = @ \cup {p}]
     ELSE s

\* the completion callback of the hide transition of p runs: on a disposed object it
\* returns early only if it consults the replaced property, and otherwise works on
\* the object's nulled state and throws
HideComplete(s, p) ==
  LET s1 == [s EXCEPT !.hiding = @ \ {p}]
  IN IF s.plugins[p] = "live" \/ (s.honoured /\ p \in s.marked)
       THEN s1
       ELSE [s1 EXCEPT !.error = TRUE]

\* this.tooltip.isWithActiveTrigger = () => true
Mark(s, p) ==
  IF s.kind = "bs-tooltip" THEN [s EXCEPT !.marked = @ \cup {p}] ELSE s

\* ---- the component ----

connectedCallback(s) ==
  IF s.initialized
    THEN [s EXCEPT !.attached = TRUE, !.touched = FALSE]
    ELSE [s EXCEPT !.attached = TRUE, !.timers = @ + 1, !.touched = FALSE]

_render_unguarded(s) ==
  LET s1 == [s EXCEPT !.initialized = TRUE, !.builds = @ + 1]
  IN IF s1.lib THEN NewPlugin(s1) ELSE s1

_render(s) ==
  IF s.initialized
    THEN s
    ELSE LET s1 == [s EXCEPT !.initialized = TRUE, !.builds = @ + 1]
         IN IF s1.lib THEN NewPlugin(s1) ELSE s1

_ensureModal_nolibcheck(s) ==
  LET s1 == IF ~s.initialized THEN _render(s) ELSE s
  IN IF s1.handle = 0 THEN NewPlugin(s1) ELSE s1

\* _ensureModal, _ensureToast, _ensureCollapse, _ensureAlert
_ensureModal(s) ==
  LET s1 == IF ~s.initialized THEN _render(s) ELSE s
  IN IF s1.handle = 0 /\ s1.lib THEN NewPlugin(s1) ELSE s1

\* bootstrap.Carousel.getOrCreateInstance(el)
_ensureCarousel(s) ==
  LET s1 == IF ~s.initialized THEN _render(s) ELSE s
  IN IF s1.handle = 0 /\ s1.lib
       THEN IF s1.registry # 0
              THEN [s1 EXCEPT !.handle = s1.registry]
              ELSE NewPlugin(s1)
       ELSE s1

Ensure(s) ==
  IF s.kind = "bs-carousel" THEN _ensureCarousel(s) ELSE _ensureModal(s)

\* show() { this._ensureModal(); if (this.modal) this.modal.show(); } and its like
Method(s, op) ==
  LET s1 == IF Ensures(s.kind, op) THEN Ensure(s) ELSE s
  IN IF s1.handle # 0 THEN Transition(PluginCall(s1, s1.handle), s1.handle, op) ELSE s1

\* the plugin object the method's call was delegated to (0: the call reached none)
Reached(s, op) ==
  LET s1 == IF Ensures(s.kind, op) THEN Ensure(s) ELSE s
  IN IF s1.handle # 0 /\ s1.plugins[s1.handle] = "live" THEN s1.handle ELSE 0

\* dispose() { if (this.modal) { this.modal.dispose(); this.modal = null; } }
\* a throwing plugin dispose leaves the assignment undone
dispose(s) ==
  IF s.handle # 0
    THEN LET s1 == PluginDispose(Mark(s, s.handle), s.handle)
         IN IF s1.error /\ ~s.error THEN s1 ELSE [s1 EXCEPT !.handle = 0]
    ELSE s

disconnectedCallback(s) ==
  LET s1 == dispose(s)
  IN [s1 EXCEPT !.attached = FALSE, !.cycled = s.initialized, !.touched = FALSE]

reinit_nodispose(s) ==
  _render([s EXCEPT !.initialized = FALSE, !.reinits = @ + 1, !.cycled = FALSE])

\* BsTooltip.reinit()
reinit(s) ==
  LET s1 == dispose(s)
      s2 == [s1 EXCEPT !.initialized = FALSE, !.reinits = @ + 1, !.cycled = FALSE]
  IN IF s1.error /\ ~s.error THEN s1 ELSE _render(s2)

\* BsTooltip.init(element) with the bs-tooltip element itself
StaticInit(s) ==
  IF ~s.lib THEN s ELSE GetOrCreateInstance(s)

\* BsTooltip.dispose(element) with the bs-tooltip element itself
StaticDispose(s) ==
  IF ~s.lib THEN s
  ELSE IF s.registry # 0 THEN PluginDispose(Mark(s, s.registry), s.registry)
  ELSE s

\* BsTooltip.reinit(element) with the bs-tooltip element itself
StaticReinit(s) ==
  IF ~s.lib THEN s ELSE StaticInit(StaticDispose(s))

\* the state record before any step: the value of call.pre when the last step was no call
NoPre ==
  [kind |-> "bs-modal", lib |-> FALSE, attached |-> FALSE, initialized |-> FALSE,
   handle |-> 0, timers |-> 0, plugins |-> <<>>, registry |-> 0,
   own |-> {}, shown |-> {}, hiding |-> {}, marked |-> {}, honoured |-> FALSE,
   builds |-> 0, reinits |-> 0, cycled |-> FALSE, touched |-> FALSE, error |-> FALSE]

NoCall == [op |-> "none", pre |-> NoPre, reached |-> 0]

\* the value of the variables of a specification that does not use them
IdleSlots == [pc |-> "idle"]
IdleDoc == [pc |-> "idle"]
IdleMain == [pc |-> "idle"]
IdleTheme == [pc |-> "idle"]
IdleBatch == [pc |-> "idle"]
IdleButton == [pc |-> "idle"]
IdlePlaceholder == [pc |-> "idle"]

Init ==
  /\ sl = IdleSlots
  /\ doc = IdleDoc
  /\ mc = IdleMain
  /\ th = IdleTheme
  /\ tb = IdleBatch
  /\ lb = IdleButton
  /\ ph = IdlePlaceholder
  /\ w \in [kind : Kinds, lib : BOOLEAN, attached : {FALSE}, initialized : {FALSE},
            handle : {0}, timers : {0}, plugins : {<<>>}, registry : {0}, own : {{}},
            shown : {{}}, hiding : {{}}, marked : {{}}, honoured : BOOLEAN,
            builds : {0}, reinits : {0}, cycled : {FALSE}, touched : {FALSE},
            error : {FALSE}]
  /\ call = NoCall

Fits(t) ==
  /\ Len(t.plugins) <= MaxPlugins
  /\ t.timers <= MaxTimers
  /\ t.reinits <= MaxReinits

\* a step of the environment or of the platform: not an imperative method call
Step(t) ==
  /\ Fits(t)
  /\ w' = t
  /\ call' = NoCall
  /\ UNCHANGED <<sl, doc, mc, th, tb, lb, ph>>

\* the state after a method of the component was called from a script
Touch(t) == [t EXCEPT !.touched = ~t.attached]

\* a call op of a method or lifecycle hook of the component, which reached plugin r
Call(op, t, r) ==
  /\ Fits(t)
  /\ w' = t
  /\ call' = [op |-> op, pre |-> w, reached |-> r]
  /\ UNCHANGED <<sl, doc, mc, th, tb, lb, ph>>

\* the script of the library finishes loading
LoadLibrary ==
  /\ ~w.lib
  /\ Step([w EXCEPT !.lib = TRUE])

Connect ==
  /\ ~w.attached
  /\ Call("connectedCallback", connectedCallback(w), 0)

Disconnect ==
  /\ w.attached
  /\ Call("disconnectedCallback", disconnectedCallback(w), 0)

TimerFires ==
  /\ w.timers > 0
  /\ Step(_render([w EXCEPT !.timers = @ - 1]))

CallMethod ==
  \E op \in Methods(w.kind) : Call(op, Touch(Method(w, op)), Reached(w, op))

CallDispose ==
  /\ w.kind \in Kinds
  /\ Call("dispose", Touch(dispose(w)), 0)

CallReinit ==
  /\ w.kind = "bs-tooltip"
  /\ Call("reinit", Touch(reinit(w)), 0)

CallStaticInit ==
  /\ w.kind = "bs-tooltip"
  /\ Step(StaticInit(w))

CallStaticDispose ==
  /\ w.kind = "bs-tooltip"
  /\ Step(StaticDispose(w))

CallStaticReinit ==
  /\ w.kind = "bs-tooltip"
  /\ Step(StaticReinit(w))

\* the hide transition of a tooltip ends (transitionend, or the library's fallback timer)
TransitionEnds ==
  \E p \in w.hiding : Call("hideComplete", HideComplete(w, p), p)

\* a click on one of the data-bs-dismiss / data-bs-toggle / data-bs-slide triggers that
\* _render generated: the library's delegated handler looks the plugin of the target
\* node up with getOrCreateInstance and calls it
DataApiActivate ==
  /\ w.kind # "bs-tooltip"
  /\ w.lib
  /\ w.initialized
  /\ Step(GetOrCreateInstance(w))

Next ==
  \/ LoadLibrary
  \/ Connect
  \/ Disconnect
  \/ TimerFires
  \/ CallMethod
  \/ CallDispose
  \/ CallReinit
  \/ CallStaticInit
  \/ CallStaticDispose
  \/ CallStaticReinit
  \/ DataApiActivate
  \/ TransitionEnds

Spec == Init /\ [][Next]_vars

(***************************************************************************)
(* PART 2.  Redistribution of the host's children by _render.              *)
(*                                                                         *)
(* sl is the state of one slot-distributing instance:                      *)
(*   pc        "constructed", "scheduled" (connectedCallback has set the   *)
(*             timer) or "rendered" (_render has run)                      *)
(*   kind      the custom element's tag                                    *)
(*   attrs     the attributes of the host that are set (for a text         *)
(*             attribute: set to a non-empty string)                       *)
(*   children  the host's child nodes in document order; a child is a      *)
(*             text node or an element, with the value of its slot         *)
(*             attribute as its mark (for bs-navbar, whose _render goes    *)
(*             by the tag name, the mark is the tag name)                  *)
(*   regions   the content of each target region of the generated markup,  *)
(*             a sequence of items: the i-th original child, the region's  *)
(*             content generated from an attribute, or (bs-card) the       *)
(*             generated h5 / h6 element that holds the title / subtitle   *)
(*             region                                                      *)
(*   removed   the region containers _render removed from the markup       *)
(*   fade      (bs-modal) the value of the host's fade attribute           *)
(*   classes   (bs-modal) the class list of the generated .modal element   *)
(* Children are opaque: their own classes and descendants are not part of  *)
(* the state.                                                              *)
(***************************************************************************)
\* children of one host
MaxChildren == 3

SlotKinds == {"bs-modal", "bs-alert", "bs-card", "bs-toast", "bs-accordion-item", "bs-navbar"}

NoSlot == "(none)"

\* the marks _render compares with
MarksOf(kind) ==
  CASE kind = "bs-modal" -> {"body", "footer", "title"}
    [] kind = "bs-alert" -> {"heading"}
    [] kind = "bs-card" -> {"header", "footer", "image-top", "image-bottom", "title", "subtitle"}
    [] kind = "bs-toast" -> {"icon", "header"}
    [] kind = "bs-accordion-item" -> {"header"}
    [] kind = "bs-navbar" -> {"bs-navbar-brand"}

\* the attributes _render generates content from (and no-body, which changes the layout)
AttrsOf(kind) ==
  CASE kind = "bs-modal" -> {"title"}
    [] kind = "bs-alert" -> {"heading", "dismissible"}
    [] kind = "bs-card" -> {"title", "subtitle", "img-top", "img-bottom", "no-body"}
    [] kind = "bs-toast" -> {"title", "time"}
    [] kind = "bs-accordion-item" -> {"title"}
    [] kind = "bs-navbar" -> {}

RegionsOf(kind) ==
  CASE kind = "bs-modal" -> {"title", "body", "footer"}
    [] kind = "bs-alert" -> {"heading", "body", "dismiss"}
    [] kind = "bs-card" -> {"image-top", "header", "title", "subtitle", "body", "footer", "image-bottom"}
    [] kind = "bs-toast" -> {"icon", "header", "title", "time", "body"}
    [] kind = "bs-accordion-item" -> {"header", "body"}
    [] kind = "bs-navbar" -> {"brand", "collapse"}

ChildrenOf(kind) ==
  [node : {"element"}, mark : MarksOf(kind) \cup {"other", NoSlot}]
    \cup {[node |-> "text", mark |-> NoSlot]}

SeqsUpTo(S, n) == UNION {[1..m -> S] : m \in 0..n}

Child(i) == [k |-> "child", id |-> i]
Default == [k |-> "default", id |-> 0]
H5 == [k |-> "h5", id |-> 0]
H6 == [k |-> "h6", id |-> 0]

Has(seq, x) == \E j \in 1..Len(seq) : seq[j] = x

\* container.appendChild(child)
Put(r, region, item) == [r EXCEPT ![region] = Append(@, item)]

Override_alongside(r, region, item) == [r EXCEPT ![region] = Append(@, item)]

\* container.innerHTML = ''; container.appendChild(child)
Override(r, region, item) == [r EXCEPT ![region] = <<item>>]

\* child.nodeType === Node.ELEMENT_NODE && child.hasAttribute('slot')
Slotted(c) == c.node = "element" /\ c.mark # NoSlot

\* the regions as the markup is generated, before any child is distributed
Generated(kind, attrs) ==
  [region \in RegionsOf(kind) |->
     CASE kind = "bs-modal" /\ region = "title" /\ "title" \in attrs -> <<Default>>
       [] kind = "bs-alert" /\ region = "heading" /\ "heading" \in attrs -> <<Default>>
       [] kind = "bs-alert" /\ region = "dismiss" /\ "dismissible" \in attrs -> <<Default>>
       [] kind = "bs-accordion-item" /\ region = "header" /\ "title" \in attrs -> <<Default>>
       [] kind = "bs-card" /\ region = "title" /\ "no-body" \notin attrs /\ "title" \in attrs
            -> <<Default>>
       [] kind = "bs-card" /\ region = "subtitle" /\ "no-body" \notin attrs /\ "subtitle" \in attrs
            -> <<Default>>
       [] kind = "bs-card" /\ region = "body" /\ "no-body" \notin attrs
            -> (IF "title" \in attrs THEN <<H5>> ELSE <<>>)
                 \o (IF "subtitle" \in attrs THEN <<H6>> ELSE <<>>)
       [] kind = "bs-card" /\ region = "image-top" /\ "img-top" \in attrs -> <<Default>>
       [] kind = "bs-card" /\ region = "image-bottom" /\ "img-bottom" \in attrs -> <<Default>>
       [] OTHER -> <<>>]

PlaceModal_dropUnknown(r, i, c) ==
  IF Slotted(c)
    THEN CASE c.mark = "body" -> Put(r, "body", Child(i))
           [] c.mark = "footer" -> Put(r, "footer", Child(i))
           [] c.mark = "title" -> Override(r, "title", Child(i))
           [] OTHER -> r
    ELSE Put(r, "body", Child(i))

PlaceModal(r, i, c) ==
  IF Slotted(c)
    THEN CASE c.mark = "body" -> Put(r, "body", Child(i))
           [] c.mark = "footer" -> Put(r, "footer", Child(i))
           [] c.mark = "title" -> Override(r, "title", Child(i))
           [] OTHER -> Put(r, "body", Child(i))
    ELSE Put(r, "body", Child(i))

PlaceAlert(r, i, c) ==
  IF Slotted(c)
    THEN IF c.mark = "heading"
           THEN Override(r, "heading", Child(i))
           ELSE Put(r, "body", Child(i))
    ELSE Put(r, "body", Child(i))

PlaceToast(r, i, c) ==
  IF Slotted(c)
    THEN CASE c.mark = "icon" -> Put(r, "icon", Child(i))
           [] c.mark = "header" -> Put(r, "header", Child(i))
           [] OTHER -> Put(r, "body", Child(i))
    ELSE Put(r, "body", Child(i))

\* child.nodeType === Node.ELEMENT_NODE && child.getAttribute('slot') === 'header'
PlaceAccordionItem(r, i, c) ==
  IF c.node = "element" /\ c.mark = "header"
    THEN Override(r, "header", Child(i))
    ELSE Put(r, "body", Child(i))

\* the body with item x inserted right after its first item y
InsertAfter(body, y, x) ==
  LET j == CHOOSE n \in 1..Len(body) : body[n] = y /\ \A m \in 1..(n - 1) : body[m] # y
  IN SubSeq(body, 1, j) \o <<x>> \o SubSeq(body, j + 1, Len(body))

PlaceCard(attrs, r, i, c) ==
  IF Slotted(c)
    THEN CASE c.mark = "header" -> Put(r, "header", Child(i))
           [] c.mark = "footer" -> Put(r, "footer", Child(i))
           [] c.mark = "image-top" -> Override(r, "image-top", Child(i))
           [] c.mark = "image-bottom" -> Override(r, "image-bottom", Child(i))
           [] c.mark = "title" ->
                IF "no-body" \notin attrs
                  THEN IF Has(r["body"], H5)
                         THEN Override(r, "title", Child(i))
                         ELSE [r EXCEPT !["title"] = <<Child(i)>>,
                                        !["body"] = <<H5>> \o @]
                  ELSE Put(r, "body", Child(i))
           [] c.mark = "subtitle" ->
                IF "no-body" \notin attrs
                  THEN IF Has(r["body"], H6)
                         THEN Override(r, "subtitle", Child(i))
                         ELSE [r EXCEPT !["subtitle"] = <<Child(i)>>,
                                        !["body"] = IF Has(@, H5)
                                                      THEN InsertAfter(@, H5, H6)
                                                      ELSE <<H6>> \o @]
                  ELSE Put(r, "body", Child(i))
           [] OTHER -> Put(r, "body", Child(i))
    ELSE Put(r, "body", Child(i))

Place(kind, attrs, r, i, c) ==
  CASE kind = "bs-modal" -> PlaceModal(r, i, c)
    [] kind = "bs-alert" -> PlaceAlert(r, i, c)
    [] kind = "bs-toast" -> PlaceToast(r, i, c)
    [] kind = "bs-accordion-item" -> PlaceAccordionItem(r, i, c)
    [] kind = "bs-card" -> PlaceCard(attrs, r, i, c)

\* Array.from(fragment.childNodes).forEach(child => ...), from child i on
RECURSIVE DistributeFrom(_, _, _, _, _)
DistributeFrom(kind, attrs, children, i, r) ==
  IF i > Len(children)
    THEN r
    ELSE DistributeFrom(kind, attrs, children, i + 1, Place(kind, attrs, r, i, children[i]))

\* bs-navbar: one pass moves the brand elements in front of the toggler, a second
\* pass moves every other node into the collapse
IsBrand(c) == c.node = "element" /\ c.mark = "bs-navbar-brand"

RECURSIVE NavbarPass(_, _, _, _, _)
NavbarPass(children, i, r, region, brands) ==
  IF i > Len(children)
    THEN r
    ELSE NavbarPass(children, i + 1,
                    IF IsBrand(children[i]) = brands THEN Put(r, region, Child(i)) ELSE r,
                    region, brands)

DistributeNavbar(children, r) ==
  NavbarPass(children, 1, NavbarPass(children, 1, r, "brand", TRUE), "collapse", FALSE)

\* bs-toast builds its header after the distribution: the title element only when no
\* child went to the header slot, the time element whenever the attribute is set
FinishToast(attrs, r) ==
  LET hasHeader == \/ "title" \in attrs
                   \/ "time" \in attrs
                   \/ r["header"] # <<>>
                   \/ r["icon"] # <<>>
  IN [r EXCEPT !["title"] = IF hasHeader /\ r["header"] = <<>> /\ "title" \in attrs
                              THEN <<Default>> ELSE <<>>,
               !["time"] = IF hasHeader /\ "time" \in attrs THEN <<Default>> ELSE <<>>]

Distribute(kind, attrs, children) ==
  CASE kind = "bs-navbar" -> DistributeNavbar(children, Generated(kind, attrs))
    [] kind = "bs-toast" ->
         FinishToast(attrs, DistributeFrom(kind, attrs, children, 1, Generated(kind, attrs)))
    [] OTHER -> DistributeFrom(kind, attrs, children, 1, Generated(kind, attrs))

\* the region containers removed after the distribution
Cleanup(kind, attrs, r) ==
  CASE kind = "bs-modal" -> {region \in {"footer"} : r[region] = <<>>}
    [] kind = "bs-card" ->
         {region \in {"header", "image-top", "image-bottom", "footer", "body"} : r[region] = <<>>}
    [] kind = "bs-toast" ->
         IF r["header"] = <<>> /\ r["icon"] = <<>> /\ r["title"] = <<>> /\ r["time"] = <<>>
           THEN {"icon", "header", "title", "time"}
           ELSE {}
    [] OTHER -> {}

\* getAttribute of an attribute the element does not have
NoAttr == "(null)"

\* the values of the fade attribute
FadeValues == {NoAttr, "", "true", "false"}

\* const fade = this.hasAttribute('fade') || this.getAttribute('fade') !== 'false';
\* modalElement.className = 'modal'; if (fade) modalElement.classList.add('fade')
ModalClasses(fade) ==
  LET hasAttribute == fade # NoAttr
      getAttribute == fade
  IN {"modal"} \cup (IF hasAttribute \/ getAttribute # "false" THEN {"fade"} ELSE {})

InitSlots ==
  /\ w = NoPre
  /\ call = NoCall
  /\ doc = IdleDoc
  /\ mc = IdleMain
  /\ th = IdleTheme
  /\ tb = IdleBatch
  /\ lb = IdleButton
  /\ ph = IdlePlaceholder
  /\ \E kind \in SlotKinds :
       \E attrs \in SUBSET AttrsOf(kind) :
         \E children \in SeqsUpTo(ChildrenOf(kind), MaxChildren) :
           \E fade \in (IF kind = "bs-modal" THEN FadeValues ELSE {NoAttr}) :
             sl = [pc |-> "constructed", kind |-> kind, attrs |-> attrs,
                   children |-> children,
                   regions |-> [region \in RegionsOf(kind) |-> <<>>],
                   removed |-> {}, fade |-> fade, classes |-> {}]

\* connectedCallback: setTimeout(() => this._render(), 0)
SlotConnect ==
  /\ sl.pc = "constructed"
  /\ sl' = [sl EXCEPT !.pc = "scheduled"]
  /\ UNCHANGED <<w, call, doc, mc, th, tb, lb, ph>>

\* the timer fires: _render captures the children and distributes them
SlotRender ==
  /\ sl.pc = "scheduled"
  /\ LET r == Distribute(sl.kind, sl.attrs, sl.children)
     IN sl' = [sl EXCEPT !.pc = "rendered",
                         !.regions = r,
                         !.removed = Cleanup(sl.kind, sl.attrs, r),
                         !.classes = IF sl.kind = "bs-modal"
                                       THEN ModalClasses(sl.fade) ELSE {}]
  /\ UNCHANGED <<w, call, doc, mc, th, tb, lb, ph>>

NextSlots ==
  \/ SlotConnect
  \/ SlotRender

SpecSlots == InitSlots /\ [][NextSlots]_vars


(***************************************************************************)
(* PART 3.  Shared resources of bs-code-block.                             *)
(*                                                                         *)
(* doc is the document with its bs-code-block instances:                   *)
(*   hljs    window.hljs is defined                                        *)
(*   page    the elements the page's author put into the document          *)
(*   head    the elements _ensureResources appended to document.head, in   *)
(*           the order of their insertion                                  *)
(*   blocks  per instance: pc ("constructed", "scheduled", "rendered"),    *)
(*           highlighted (hljs.highlightElement has run on its code),      *)
(*           interval ("none", "running", "cleared": the 100 ms polling    *)
(*           interval of _highlight) and giveup (the 5 s timer that        *)
(*           clears the interval is pending)                               *)
(* An element is its tag, its id and the library names its URL contains,   *)
(* which is what the selectors of _ensureResources look at.                *)
(***************************************************************************)
\* bs-code-block instances in the document
NumBlocks == 3

Blocks == 1..NumBlocks

Element(tag, id, names) == [tag |-> tag, id |-> id, url |-> names]

\* what _ensureResources creates
StyleElement == Element("style", "bs-code-block-styles", {})
HljsCssLink == Element("link", "", {"cdnjs.cloudflare.com", "highlight.js"})
IconsCssLink == Element("link", "", {"cdn.jsdelivr.net", "bootstrap-icons"})
HljsScript == Element("script", "", {"cdnjs.cloudflare.com", "highlight.js"})

Injected == {StyleElement, HljsCssLink, IconsCssLink, HljsScript}

\* what a page may already hold: its own copies of the same resources
PageElements ==
  {Element("style", "bs-code-block-styles", {}),
   Element("link", "", {"unpkg.com", "highlight.js"}),
   Element("link", "", {"unpkg.com", "bootstrap-icons"}),
   Element("script", "", {"unpkg.com", "highlight.js"})}

ElementsOf(d) == d.page \cup {d.head[j] : j \in 1..Len(d.head)}

\* document.getElementById(id)
ById(d, id) == \E e \in ElementsOf(d) : e.id = id

\* document.querySelector('tag[href*="name"]') and 'tag[src*="name"]'
ByUrl(d, tag, name) == \E e \in ElementsOf(d) : e.tag = tag /\ name \in e.url

AppendToHead(d, e) == [d EXCEPT !.head = Append(@, e)]

_ensureResources_unchecked(d) ==
  AppendToHead(AppendToHead(AppendToHead(AppendToHead(d, StyleElement), HljsCssLink),
                            IconsCssLink), HljsScript)

_ensureResources(d) ==
  LET d1 == IF ~ById(d, "bs-code-block-styles") THEN AppendToHead(d, StyleElement) ELSE d
      d2 == IF ~ByUrl(d1, "link", "highlight.js") THEN AppendToHead(d1, HljsCssLink) ELSE d1
      d3 == IF ~ByUrl(d2, "link", "bootstrap-icons") THEN AppendToHead(d2, IconsCssLink) ELSE d2
  IN IF ~d3.hljs /\ ~ByUrl(d3, "script", "highlight.js")
       THEN AppendToHead(d3, HljsScript)
       ELSE d3

\* _highlight(codeElem) of instance b
_highlight(d, b) ==
  IF d.hljs
    THEN [d EXCEPT !.blocks[b].highlighted = TRUE]
    ELSE [d EXCEPT !.blocks[b].interval = "running", !.blocks[b].giveup = TRUE]

\* _render of instance b, past the _initialized guard
RenderBlock(d, b) ==
  _highlight(_ensureResources([d EXCEPT !.blocks[b].pc = "rendered"]), b)

InitRes ==
  /\ w = NoPre
  /\ call = NoCall
  /\ sl = IdleSlots
  /\ mc = IdleMain
  /\ th = IdleTheme
  /\ tb = IdleBatch
  /\ lb = IdleButton
  /\ ph = IdlePlaceholder
  /\ \E hljs \in BOOLEAN :
       \E page \in SUBSET PageElements :
         doc = [pc |-> "run", hljs |-> hljs, page |-> page, head |-> <<>>,
                blocks |-> [b \in Blocks |->
                              [pc |-> "constructed", highlighted |-> FALSE,
                               interval |-> "none", giveup |-> FALSE]]]

\* connectedCallback of instance b
BlockConnect(b) ==
  /\ doc.blocks[b].pc = "constructed"
  /\ doc' = [doc EXCEPT !.blocks[b].pc = "scheduled"]
  /\ UNCHANGED <<w, call, sl, mc, th, tb, lb, ph>>

\* the zero-delay timer of instance b fires
BlockTimerFires(b) ==
  /\ doc.blocks[b].pc = "scheduled"
  /\ doc' = RenderBlock(doc, b)
  /\ UNCHANGED <<w, call, sl, mc, th, tb, lb, ph>>

\* a highlight.js script of the document finishes loading
HljsLoads ==
  /\ ~doc.hljs
  /\ ByUrl(doc, "script", "highlight.js")
  /\ doc' = [doc EXCEPT !.hljs = TRUE]
  /\ UNCHANGED <<w, call, sl, mc, th, tb, lb, ph>>

\* the polling interval of instance b ticks
PollTick(b) ==
  /\ doc.blocks[b].interval = "running"
  /\ doc' = IF doc.hljs
              THEN [doc EXCEPT !.blocks[b].highlighted = TRUE, !.blocks[b].interval = "cleared"]
              ELSE doc
  /\ UNCHANGED <<w, call, sl, mc, th, tb, lb, ph>>

\* the give-up timer of instance b fires: clearInterval(interval)
GiveUp(b) ==
  /\ doc.blocks[b].giveup
  /\ doc' = [doc EXCEPT !.blocks[b].giveup = FALSE, !.blocks[b].interval = "cleared"]
  /\ UNCHANGED <<w, call, sl, mc, th, tb, lb, ph>>

NextRes ==
  \/ \E b \in Blocks : BlockConnect(b)
  \/ \E b \in Blocks : BlockTimerFires(b)
  \/ HljsLoads
  \/ \E b \in Blocks : PollTick(b)
  \/ \E b \in Blocks : GiveUp(b)

SpecRes == InitRes /\ [][NextRes]_vars


(***************************************************************************)
(* PART 4.  main-container.                                                *)
(*                                                                         *)
(* mc is one main-container and the part of the page it looks at:          *)
(*   attached      the element is connected to the document                *)
(*   initialized   this._initialized                                       *)
(*   timers        callbacks scheduled by setTimeout(..., 0), not yet run  *)
(*   interval      this._interval is not null                              *)
(*   polling       the 50 ms interval of _startCheck is active             *)
(*   spinner       this._spinner is not null                               *)
(*   overlay       the spinner container is in the document                *)
(*   faded         the spinner container's opacity is 0                    *)
(*   removals      pending 300 ms timers that remove the spinner container *)
(*   opacity       the host's inline opacity: "" (the page's style sheet   *)
(*                 decides, which the component expects to say 0) or "1"   *)
(*   undefinedEls  some element with a hyphen in its tag name is not yet   *)
(*                 defined                                                 *)
(*   className     the host's class attribute                              *)
(*   children      the child nodes of the host that are not the wrapper    *)
(*   main          the generated main wrapper: "none", or the class it got *)
(*                 and the number of nodes moved into it                   *)
(***************************************************************************)
\* zero-delay timers of one main-container
MaxMainTimers == 2
\* child nodes of a main-container
MaxMainChildren == 2

NoMain == [className |-> "none", nodes |-> 0]

Main_connectedCallback(m) ==
  IF m.initialized
    THEN [m EXCEPT !.attached = TRUE]
    ELSE [m EXCEPT !.attached = TRUE, !.timers = @ + 1]

\* document.body.appendChild(container); this._spinner = container
_showSpinner(m) == [m EXCEPT !.spinner = TRUE, !.overlay = TRUE, !.faded = FALSE]

\* this._interval = setInterval(..., 50)
_startCheck(m) == [m EXCEPT !.interval = TRUE, !.polling = TRUE]

Main_render(m) ==
  IF m.initialized
    THEN m
    ELSE _startCheck(_showSpinner(
           [m EXCEPT !.initialized = TRUE,
                     !.main = [className |-> m.className, nodes |-> m.children],
                     !.children = 0]))

_finishLoading(m) ==
  LET m1 == IF m.interval THEN [m EXCEPT !.interval = FALSE, !.polling = FALSE] ELSE m
      m2 == IF m1.spinner THEN [m1 EXCEPT !.faded = TRUE, !.removals = @ + 1] ELSE m1
  IN [m2 EXCEPT !.opacity = "1"]

\* clearInterval(this._interval) leaves the field set
Main_disconnectedCallback(m) ==
  LET m1 == IF m.interval THEN [m EXCEPT !.polling = FALSE] ELSE m
      m2 == IF m1.spinner /\ m1.overlay THEN [m1 EXCEPT !.overlay = FALSE] ELSE m1
  IN [m2 EXCEPT !.attached = FALSE]

\* the callback of the interval
IntervalCallback(m) ==
  IF ~m.undefinedEls THEN _finishLoading(m) ELSE m

\* the callback of the 300 ms timer
RemoveSpinner(m) ==
  LET m1 == [m EXCEPT !.removals = @ - 1]
  IN IF m1.spinner /\ m1.overlay THEN [m1 EXCEPT !.overlay = FALSE] ELSE m1

InitMain ==
  /\ w = NoPre
  /\ call = NoCall
  /\ sl = IdleSlots
  /\ doc = IdleDoc
  /\ th = IdleTheme
  /\ tb = IdleBatch
  /\ lb = IdleButton
  /\ ph = IdlePlaceholder
  /\ \E u \in BOOLEAN :
       \E c \in {"", "container"} :
         \E n \in 0..MaxMainChildren :
           mc = [pc |-> "run", attached |-> FALSE, initialized |-> FALSE, timers |-> 0,
                 interval |-> FALSE, polling |-> FALSE, spinner |-> FALSE,
                 overlay |-> FALSE, faded |-> FALSE, removals |-> 0, opacity |-> "",
                 undefinedEls |-> u, className |-> c, children |-> n, main |-> NoMain]

MainStep(m) ==
  /\ m.timers <= MaxMainTimers
  /\ mc' = m
  /\ UNCHANGED <<w, call, sl, doc, th, tb, lb, ph>>

MainConnect ==
  /\ ~mc.attached
  /\ MainStep(Main_connectedCallback(mc))

MainDisconnect ==
  /\ mc.attached
  /\ MainStep(Main_disconnectedCallback(mc))

MainTimerFires ==
  /\ mc.timers > 0
  /\ MainStep(Main_render([mc EXCEPT !.timers = @ - 1]))

MainPollTick ==
  /\ mc.polling
  /\ MainStep(IntervalCallback(mc))

MainRemovalFires ==
  /\ mc.removals > 0
  /\ MainStep(RemoveSpinner(mc))

\* the script that defines the last pending custom element runs
ElementsDefined ==
  /\ mc.undefinedEls
  /\ MainStep([mc EXCEPT !.undefinedEls = FALSE])

\* markup with a custom element that is not defined is inserted into the document
UndefinedElementInserted ==
  /\ ~mc.undefinedEls
  /\ MainStep([mc EXCEPT !.undefinedEls = TRUE])

NextMain ==
  \/ MainConnect
  \/ MainDisconnect
  \/ MainTimerFires
  \/ MainPollTick
  \/ MainRemovalFires
  \/ ElementsDefined
  \/ UndefinedElementInserted

SpecMain == InitMain /\ [][NextMain]_vars

\* timers of the browser that are due do run, and an interval that keeps running
\* does not miss every moment at which its condition holds
FairSpecMain ==
  /\ SpecMain
  /\ WF_vars(MainTimerFires)
  /\ SF_vars(MainPollTick)
  /\ WF_vars(MainRemovalFires)


(***************************************************************************)
(* PART 5.  theme-toggle.                                                  *)
(*                                                                         *)
(* th is the window with its theme-toggle instances:                       *)
(*   storage     localStorage: for each key the stored string, or NoItem   *)
(*   systemDark  matchMedia('(prefers-color-scheme: dark)').matches        *)
(*   root        the data-bs-theme attribute of the document element       *)
(*   inst        per instance: attached, initialized, timers (zero-delay   *)
(*               timers pending), state (this._state), keyAttr (the        *)
(*               storage-key attribute) and listening (its handlers are    *)
(*               registered on window and on the media query)              *)
(*   last        the last step, when it was a click: the instance clicked  *)
(*               (0: the step was no click), its _state before the click   *)
(*               and the bs-theme-change events dispatched during it       *)
(*   trail       the _state values one instance went through in its latest *)
(*               run of clicks that nothing else interrupted               *)
(***************************************************************************)
\* zero-delay timers of one theme-toggle
MaxThemeTimers == 1

\* the theme-toggle instances of the window: one that is used and one that follows
Toggles == {1, 2}

\* localStorage.getItem of a key that is not stored
NoItem == "(null)"

ThemeStates == <<"light", "dark", "auto">>

\* what localStorage may hold under a key: another script or tab may have written it
StoredValues == {"light", "dark", "auto", "junk", NoItem}

\* the values of the storage-key attribute
KeyAttrs == {NoAttr, "alt"}

\* this.getAttribute('storage-key') || 'theme'
StorageKey(t) == IF t.keyAttr = NoAttr THEN "theme" ELSE t.keyAttr

StorageKeys == {"theme", "alt"}

\* localStorage.getItem(key) || 'auto'
StoredOrAuto(storage, key) == IF storage[key] = NoItem THEN "auto" ELSE storage[key]

\* states.indexOf(state), counted from 1; 0 when the state is not in the list
IndexOf(state) ==
  IF \E n \in 1..Len(ThemeStates) : ThemeStates[n] = state
    THEN CHOOSE n \in 1..Len(ThemeStates) : ThemeStates[n] = state
    ELSE 0

\* states[(currentIndex + 1) % states.length]
Successor(state) == ThemeStates[(IndexOf(state) % Len(ThemeStates)) + 1]

\* the value _applyTheme writes to data-bs-theme
ActiveTheme(theme, systemDark) ==
  IF theme = "auto" THEN (IF systemDark THEN "dark" ELSE "light") ELSE theme

_applyTheme(h, theme) == [h EXCEPT !.root = ActiveTheme(theme, h.systemDark)]

\* _handleExternalChange of instance j for a bs-theme-change event
OnThemeChange(t, e) ==
  IF t.listening /\ e.storageKey = StorageKey(t) /\ e.theme # t.state
    THEN [t EXCEPT !.state = e.theme]
    ELSE t

\* window.dispatchEvent(new CustomEvent('bs-theme-change', ...)): every registered
\* handler runs before dispatchEvent returns
Dispatch(h, e) ==
  [h EXCEPT !.inst = [j \in Toggles |-> OnThemeChange(h.inst[j], e)],
            !.sent = Append(h.sent, e)]

_cycleState_noEvent(h, i) ==
  LET new == Successor(h.inst[i].state)
      key == StorageKey(h.inst[i])
      h1 == [h EXCEPT !.inst[i].state = new, !.storage[key] = new]
  IN _applyTheme(h1, new)

_cycleState(h, i) ==
  LET new == Successor(h.inst[i].state)
      key == StorageKey(h.inst[i])
      h1 == [h EXCEPT !.inst[i].state = new, !.storage[key] = new]
  IN Dispatch(_applyTheme(h1, new), [theme |-> new, storageKey |-> key])

Theme_connectedCallback(h, i) ==
  IF h.inst[i].initialized
    THEN [h EXCEPT !.inst[i].attached = TRUE]
    ELSE [h EXCEPT !.inst[i].attached = TRUE, !.inst[i].timers = @ + 1]

Theme_disconnectedCallback(h, i) ==
  [h EXCEPT !.inst[i].attached = FALSE, !.inst[i].listening = FALSE]

Theme_render(h, i) ==
  IF h.inst[i].initialized
    THEN h
    ELSE LET state == StoredOrAuto(h.storage, StorageKey(h.inst[i]))
             h1 == [h EXCEPT !.inst[i].initialized = TRUE,
                             !.inst[i].state = state,
                             !.inst[i].listening = TRUE]
         IN _applyTheme(h1, state)

\* attributeChangedCallback('storage-key', oldValue, newValue): the new value is used
\* as the key as it is, also when the attribute was removed (null reads as the key
\* "null", which nothing stores)
attributeChangedCallback(h, i, newValue) ==
  LET h1 == [h EXCEPT !.inst[i].keyAttr = newValue]
      state == IF newValue = NoAttr THEN "auto" ELSE StoredOrAuto(h.storage, newValue)
  IN IF h.inst[i].initialized /\ h.inst[i].keyAttr # newValue
       THEN _applyTheme([h1 EXCEPT !.inst[i].state = state], state)
       ELSE h1

\* _handleSystemThemeChange of every instance whose handler is registered
_handleSystemThemeChange(h) ==
  IF \E j \in Toggles : h.inst[j].listening /\ h.inst[j].state = "auto"
    THEN _applyTheme(h, "auto")
    ELSE h

\* _handleExternalChange of instance j for a storage event (e.newValue || 'auto')
Reacts(t, key) == t.listening /\ key = StorageKey(t)

OnStorage(h, key, value) ==
  LET state == IF value = NoItem THEN "auto" ELSE value
      h1 == [h EXCEPT !.inst = [j \in Toggles |->
                                  IF Reacts(h.inst[j], key)
                                    THEN [h.inst[j] EXCEPT !.state = state]
                                    ELSE h.inst[j]]]
  IN IF \E j \in Toggles : Reacts(h.inst[j], key) THEN _applyTheme(h1, state) ELSE h1

NoTrail == [who |-> 0, states |-> <<>>]

NoClick == [who |-> 0, pre |-> "auto", events |-> <<>>]

\* the trail after a click on instance i that took its _state from pre to post
Extend(trail, i, pre, post) ==
  IF trail.who = i /\ Len(trail.states) < 4
    THEN [who |-> i, states |-> Append(trail.states, post)]
    ELSE [who |-> i, states |-> <<pre, post>>]

InitTheme ==
  /\ w = NoPre
  /\ call = NoCall
  /\ sl = IdleSlots
  /\ doc = IdleDoc
  /\ mc = IdleMain
  /\ tb = IdleBatch
  /\ lb = IdleButton
  /\ ph = IdlePlaceholder
  /\ \E storage \in [StorageKeys -> StoredValues] :
       \E dark \in BOOLEAN :
         \E keys \in [Toggles -> KeyAttrs] :
           th = [pc |-> "run", storage |-> storage, systemDark |-> dark, root |-> NoAttr,
                 inst |-> [j \in Toggles |->
                             [attached |-> FALSE, initialized |-> FALSE, timers |-> 0,
                              state |-> "auto", keyAttr |-> keys[j], listening |-> FALSE]],
                 sent |-> <<>>,
                 last |-> NoClick,
                 trail |-> NoTrail]

\* a step to h that was no click
ThemeStep(h) ==
  /\ \A j \in Toggles : h.inst[j].timers <= MaxThemeTimers
  /\ th' = [h EXCEPT !.last = NoClick, !.trail = NoTrail]
  /\ UNCHANGED <<w, call, sl, doc, mc, tb, lb, ph>>

ThemeConnect(i) ==
  /\ ~th.inst[i].attached
  /\ ThemeStep(Theme_connectedCallback(th, i))

ThemeDisconnect(i) ==
  /\ th.inst[i].attached
  /\ ThemeStep(Theme_disconnectedCallback(th, i))

ThemeTimerFires(i) ==
  /\ th.inst[i].timers > 0
  /\ ThemeStep(Theme_render([th EXCEPT !.inst[i].timers = @ - 1], i))

\* a click on the button of a materialized instance
Click(i) ==
  /\ th.inst[i].initialized
  /\ LET r == _cycleState(th, i)
     IN th' = [r EXCEPT
                 !.sent = <<>>,
                 !.last = [who |-> i, pre |-> th.inst[i].state, events |-> r.sent],
                 !.trail = Extend(th.trail, i, th.inst[i].state, r.inst[i].state)]
  /\ UNCHANGED <<w, call, sl, doc, mc, tb, lb, ph>>

\* the page's script changes the storage-key attribute
SetStorageKey(i) ==
  \E v \in KeyAttrs :
    /\ v # th.inst[i].keyAttr
    /\ ThemeStep(attributeChangedCallback(th, i, v))

\* the system's colour scheme preference changes
SystemThemeChanges ==
  /\ th.pc = "run"
  /\ ThemeStep(_handleSystemThemeChange([th EXCEPT !.systemDark = ~@]))

\* another document of the origin writes or removes a key: the storage event
StorageChanges ==
  \E key \in StorageKeys :
    \E v \in StoredValues :
      /\ v # th.storage[key]
      /\ ThemeStep(OnStorage([th EXCEPT !.storage[key] = v], key, v))

NextTheme ==
  \/ \E i \in Toggles : ThemeConnect(i)
  \/ \E i \in Toggles : ThemeDisconnect(i)
  \/ \E i \in Toggles : ThemeTimerFires(i)
  \/ \E i \in Toggles : Click(i)
  \/ \E i \in Toggles : SetStorageKey(i)
  \/ SystemThemeChanges
  \/ StorageChanges

SpecTheme == InitTheme /\ [][NextTheme]_vars

\* the page with nothing but attach, detach, timers and clicks: no other document
\* writes the storage, no script changes storage-key, the system preference stays
NextThemeSync ==
  \/ \E i \in Toggles : ThemeConnect(i)
  \/ \E i \in Toggles : ThemeDisconnect(i)
  \/ \E i \in Toggles : ThemeTimerFires(i)
  \/ \E i \in Toggles : Click(i)

SpecThemeSync == InitTheme /\ [][NextThemeSync]_vars


(***************************************************************************)
(* PART 6.  The batch operations of BsTooltip.                             *)
(*                                                                         *)
(* tb is a page with a container and a few elements in document order:     *)
(*   lib      window.bootstrap.Tooltip is present                          *)
(*   inside   per element: its place in the document is in the container   *)
(*            (a bs-tooltip is a descendant of the container while it is   *)
(*            attached there)                                              *)
(*   toggle   per element: it carries data-bs-toggle="tooltip"             *)
(*   els      per element a record as w of PART 1: a bs-tooltip instance,  *)
(*            or (kind "trigger") a plain element with the data attribute, *)
(*            of which only the library's objects and registry matter      *)
(*   last     the batch operation the last step made ("none": the step     *)
(*            was none), the elements before it, and whether it threw      *)
(***************************************************************************)
\* plugin objects constructed for the elements of the page during one behaviour
MaxBatchPlugins == 3

\* the elements of the page, in document order
Els == {1, 2, 3}

\* the bs-tooltip elements; element 3 is a plain element with the data attribute
Components == {1, 2}

\* container.querySelectorAll('[data-bs-toggle="tooltip"]'), in document order
Triggers(h) == {e \in Els : h.els[e].attached /\ h.inside[e] /\ h.toggle[e]}

\* container.querySelectorAll('bs-tooltip')
ComponentsIn(h) == {e \in Components : h.els[e].attached /\ h.inside[e]}

\* forEach over the elements of S in document order with f, which a throwing
\* callback ends: els is the state of the elements reached
RECURSIVE ForEach(_, _, _, _)
ForEach(els, S, f, threw) ==
  IF S = {} \/ threw
    THEN [els |-> els, threw |-> threw]
    ELSE LET e == CHOOSE x \in S : \A y \in S : x <= y
             t == IF f = "getOrCreateInstance" THEN GetOrCreateInstance(els[e])
                  ELSE IF f = "reinit" THEN reinit(els[e])
                  ELSE IF f = "BsTooltip.dispose" THEN StaticDispose(els[e])
                  ELSE dispose(els[e])
         IN ForEach([els EXCEPT ![e] = t], S \ {e}, f, t.error /\ ~els[e].error)

\* BsTooltip.initAll(container)
initAll(h) ==
  IF ~h.lib THEN [els |-> h.els, threw |-> FALSE]
  ELSE LET r == ForEach(h.els, Triggers(h), "getOrCreateInstance", FALSE)
       IN ForEach(r.els, ComponentsIn(h), "reinit", r.threw)

\* BsTooltip.disposeAll(container)
disposeAll(h) ==
  IF ~h.lib THEN [els |-> h.els, threw |-> FALSE]
  ELSE LET r == ForEach(h.els, Triggers(h), "BsTooltip.dispose", FALSE)
       IN ForEach(r.els, ComponentsIn(h), "dispose", r.threw)

\* an element of the page before anything ran
Fresh(kind, lib) ==
  [NoPre EXCEPT !.kind = kind, !.lib = lib, !.attached = (kind = "trigger")]

NoBatch == [op |-> "none", pre |-> <<>>, threw |-> FALSE]

InitBatch ==
  /\ w = NoPre
  /\ call = NoCall
  /\ sl = IdleSlots
  /\ doc = IdleDoc
  /\ mc = IdleMain
  /\ th = IdleTheme
  /\ lb = IdleButton
  /\ ph = IdlePlaceholder
  /\ \E lib \in BOOLEAN :
       \E inside \in [Els -> BOOLEAN] :
         \E toggle \in [Els -> BOOLEAN] :
           /\ toggle[3]
           /\ ~toggle[2]
           /\ inside[1]
           /\ tb = [pc |-> "run", lib |-> lib, inside |-> inside, toggle |-> toggle,
                    els |-> [e \in Els |->
                               Fresh(IF e \in Components THEN "bs-tooltip" ELSE "trigger", lib)],
                    last |-> NoBatch]

BatchFits(els) ==
  /\ Len(els[1].plugins) + Len(els[2].plugins) + Len(els[3].plugins) <= MaxBatchPlugins
  /\ \A e \in Els : els[e].timers <= 1

\* a step that changes element e to t and is no batch operation
BatchStep(e, t) ==
  /\ BatchFits([tb.els EXCEPT ![e] = t])
  /\ tb' = [tb EXCEPT !.els[e] = t, !.last = NoBatch]
  /\ UNCHANGED <<w, call, sl, doc, mc, th, lb, ph>>

\* a batch operation op with result r
BatchCall(op, r) ==
  /\ BatchFits(r.els)
  /\ tb' = [tb EXCEPT !.els = r.els,
                      !.last = [op |-> op, pre |-> tb.els, threw |-> r.threw]]
  /\ UNCHANGED <<w, call, sl, doc, mc, th, lb, ph>>

BatchConnect ==
  \E e \in Components :
    /\ ~tb.els[e].attached
    /\ BatchStep(e, connectedCallback(tb.els[e]))

BatchDisconnect ==
  \E e \in Components :
    /\ tb.els[e].attached
    /\ BatchStep(e, disconnectedCallback(tb.els[e]))

BatchTimerFires ==
  \E e \in Components :
    /\ tb.els[e].timers > 0
    /\ BatchStep(e, _render([tb.els[e] EXCEPT !.timers = @ - 1]))

\* BsTooltip.init(el) of one element
BatchStaticInit ==
  \E e \in Els :
    /\ tb.lib
    /\ BatchStep(e, StaticInit(tb.els[e]))

\* BsTooltip.dispose(el) of one element
BatchStaticDispose ==
  \E e \in Els :
    /\ tb.lib
    /\ BatchStep(e, StaticDispose(tb.els[e]))

CallInitAll ==
  /\ tb.pc = "run"
  /\ BatchCall("initAll", initAll(tb))

CallDisposeAll ==
  /\ tb.pc = "run"
  /\ BatchCall("disposeAll", disposeAll(tb))

NextBatch ==
  \/ BatchConnect
  \/ BatchDisconnect
  \/ BatchTimerFires
  \/ BatchStaticInit
  \/ BatchStaticDispose
  \/ CallInitAll
  \/ CallDisposeAll

SpecBatch == InitBatch /\ [][NextBatch]_vars


(***************************************************************************)
(* PART 7.  loading-button.                                                *)
(*                                                                         *)
(* lb is one loading-button with its internal button and the window:       *)
(*   attached     the element is connected to the document                 *)
(*   button       this.button exists                                       *)
(*   renders      how many times render() has run                          *)
(*   captures     how many times originalContent has been assigned         *)
(*   btnL         the click listeners of the component on the internal     *)
(*                button (the platform keeps a listener once)              *)
(*   winL         the event types of window that this._enableBound is      *)
(*                registered for                                           *)
(*   isLoading    this._isLoading                                          *)
(*   simulating   this._isSimulatingClick                                  *)
(*   disabled     this.button.disabled                                     *)
(*   classDisabled  the internal button has the class "disabled"           *)
(*   content      what the internal button shows: "original" or "spinner"  *)
(*   attrs        the host's attributes that render() copies to the        *)
(*                internal button: whether disabled is set, and the inline *)
(*                width of its style attribute ("" when it has none)       *)
(*   width        the inline width of the internal button: "", the width   *)
(*                copied from the host, or "px" (the measured width that   *)
(*                _handleClick fixes)                                      *)
(*   origWidth    this._originalWidthStyle (NoWidth: never assigned)       *)
(*   timers       the 10 ms timers of _handleClick that are pending        *)
(*   clean        enable() has run on the internal button and no click of  *)
(*                the user was handled since                               *)
(*   sinceEnable  the clicks that reached the listeners outside the        *)
(*                component since enable() ran last                        *)
(*   last         the click event of the last step, if it dispatched one:  *)
(*                a user's click or the timer's button.click()             *)
(***************************************************************************)
\* pending 10 ms timers of the loading-button
MaxButtonTimers == 2

WindowEvents == {"pagehide", "beforeunload"}

\* this._originalWidthStyle before _handleClick assigned it
NoWidth == "(undefined)"

\* the inline widths a page may give the host
HostWidths == {"", "10em"}

NoEvent ==
  [op |-> "none", preLoading |-> FALSE, preDisabled |-> FALSE, preTimers |-> 0,
   prevented |-> FALSE, stopped |-> "no", delivered |-> FALSE]

\* render(): creates the internal button with the original content
render(s) ==
  [s EXCEPT !.button = TRUE, !.renders = @ + 1, !.content = "original",
            !.disabled = s.attrs.disabled, !.width = s.attrs.width,
            !.classDisabled = FALSE]

Button_connectedCallback_rerender(s) ==
  LET s1 == render([s EXCEPT !.captures = @ + 1])
  IN [s1 EXCEPT !.attached = TRUE, !.btnL = @ \cup {"_handleClickBound"},
                !.winL = @ \cup WindowEvents]

Button_connectedCallback(s) ==
  LET s1 == IF ~s.button THEN render([s EXCEPT !.captures = @ + 1]) ELSE s
  IN [s1 EXCEPT !.attached = TRUE, !.btnL = @ \cup {"_handleClickBound"},
                !.winL = @ \cup WindowEvents]

\* enable()
enable(s) ==
  LET s1 == [s EXCEPT !.isLoading = FALSE]
  IN IF s.button
       THEN [s1 EXCEPT !.disabled = FALSE, !.classDisabled = FALSE,
                       !.width = IF s.origWidth = NoWidth THEN "" ELSE s.origWidth,
                       !.content = "original"]
       ELSE s1

Button_disconnectedCallback(s) ==
  LET s1 == [s EXCEPT !.btnL = IF s.button THEN @ \ {"_handleClickBound"} ELSE @,
                      !.winL = @ \ WindowEvents]
  IN [enable(s1) EXCEPT !.attached = FALSE]

_handleClick_unguarded(s, e) ==
  IF s.simulating
    THEN [s |-> s, e |-> e]
    ELSE [s |-> [s EXCEPT !.origWidth = s.width, !.width = "px",
                          !.isLoading = TRUE, !.classDisabled = TRUE,
                          !.content = "spinner", !.timers = @ + 1],
          e |-> [e EXCEPT !.prevented = TRUE, !.stopped = "propagation"]]

\* _handleClick(e): the state after it and what it did to the event
_handleClick(s, e) ==
  IF s.simulating
    THEN [s |-> s, e |-> e]
  ELSE IF s.isLoading \/ s.disabled
    THEN [s |-> s, e |-> [e EXCEPT !.prevented = TRUE, !.stopped = "immediate"]]
  ELSE [s |-> [s EXCEPT !.origWidth = s.width, !.width = "px",
                        !.isLoading = TRUE, !.classDisabled = TRUE,
                        !.content = "spinner", !.timers = @ + 1],
        e |-> [e EXCEPT !.prevented = TRUE, !.stopped = "propagation"]]

\* a click event is dispatched at the internal button: the listeners of the button
\* run, and unless one of them stopped the event it bubbles to the listeners of the
\* host and of its ancestors
DispatchClick(s, op) ==
  LET e0 == [NoEvent EXCEPT !.op = op, !.preLoading = s.isLoading,
                            !.preDisabled = s.disabled, !.preTimers = s.timers]
      r == IF s.btnL # {} THEN _handleClick(s, e0) ELSE [s |-> s, e |-> e0]
      out == r.e.stopped = "no"
  IN [r.s EXCEPT !.last = [r.e EXCEPT !.delivered = out],
                 !.sinceEnable = IF out THEN @ + 1 ELSE @]

\* the callback of the 10 ms timer: button.click() does nothing on a disabled button
Redispatch(s) ==
  LET s1 == [s EXCEPT !.simulating = TRUE, !.last = NoEvent]
      s2 == IF s1.disabled
              THEN [s1 EXCEPT !.last = [NoEvent EXCEPT !.op = "timer",
                                                       !.preLoading = s.isLoading,
                                                       !.preDisabled = TRUE,
                                                       !.preTimers = s.timers]]
              ELSE DispatchClick(s1, "timer")
  IN [s2 EXCEPT !.simulating = FALSE, !.disabled = TRUE]

InitButton ==
  /\ w = NoPre
  /\ call = NoCall
  /\ sl = IdleSlots
  /\ doc = IdleDoc
  /\ mc = IdleMain
  /\ th = IdleTheme
  /\ tb = IdleBatch
  /\ ph = IdlePlaceholder
  /\ \E attrs \in [disabled : BOOLEAN, width : HostWidths] :
       lb = [pc |-> "run", attached |-> FALSE, button |-> FALSE, renders |-> 0,
             captures |-> 0, btnL |-> {}, winL |-> {}, isLoading |-> FALSE,
             simulating |-> FALSE, disabled |-> FALSE, classDisabled |-> FALSE,
             content |-> "original", attrs |-> attrs, width |-> "",
             origWidth |-> NoWidth, timers |-> 0, clean |-> FALSE, sinceEnable |-> 0,
             last |-> NoEvent]

ButtonStep(s) ==
  /\ s.timers <= MaxButtonTimers
  /\ lb' = s
  /\ UNCHANGED <<w, call, sl, doc, mc, th, tb, ph>>

ButtonConnect ==
  /\ ~lb.attached
  /\ ButtonStep(Button_connectedCallback([lb EXCEPT !.last = NoEvent]))

\* the element is removed: disconnectedCallback ends with enable()
ButtonDisconnect ==
  /\ lb.attached
  /\ ButtonStep([Button_disconnectedCallback([lb EXCEPT !.last = NoEvent])
                   EXCEPT !.clean = lb.button, !.sinceEnable = 0])

\* the user clicks the internal button (or activates it from the keyboard)
UserClick ==
  /\ lb.attached
  /\ lb.button
  /\ LET s == DispatchClick(lb, "click")
     IN ButtonStep([s EXCEPT !.clean = @ /\ s.timers = lb.timers])

ButtonTimerFires ==
  /\ lb.timers > 0
  /\ ButtonStep(Redispatch([lb EXCEPT !.timers = @ - 1]))

\* a script calls enable()
CallEnable ==
  /\ lb.pc = "run"
  /\ ButtonStep([enable([lb EXCEPT !.last = NoEvent]) EXCEPT !.clean = lb.button, !.sinceEnable = 0])

\* pagehide or beforeunload is dispatched at window
WindowEvent ==
  \E type \in WindowEvents :
    /\ type \in lb.winL
    /\ ButtonStep([enable([lb EXCEPT !.last = NoEvent]) EXCEPT !.clean = lb.button, !.sinceEnable = 0])

NextButton ==
  \/ ButtonConnect
  \/ ButtonDisconnect
  \/ UserClick
  \/ ButtonTimerFires
  \/ CallEnable
  \/ WindowEvent

SpecButton == InitButton /\ [][NextButton]_vars


(***************************************************************************)
(* PART 8.  BsPlaceholder.placeholderize and BsPlaceholder.restore.        *)
(*                                                                         *)
(* ph is a container with a few target elements that are siblings:         *)
(*   els     per element:                                                  *)
(*             tag       "p", "button", "a" or "img", or "div" for the     *)
(*                       element placeholderize puts in place of an img    *)
(*             content   its innerHTML: "original", "" or "placeholder"    *)
(*                       (the generated span)                              *)
(*             classes   its class list                                    *)
(*             width     its inline width: "", "10em" or "px" (a measured  *)
(*                       width)                                            *)
(*             disabled  its disabled property (button)                    *)
(*             aria      its aria-disabled attribute                       *)
(*             alt       its alt attribute (img)                           *)
(*             src       its src                                           *)
(*             visible   its bounding rectangle is not empty               *)
(*             saved     the data-original-* attributes it carries, by the *)
(*                       part of the name after data-original-             *)
(*             data      the values of those attributes                    *)
(*   orig    the elements before the first placeholderize since the last   *)
(*           restore                                                       *)
(*   calls   the placeholderize calls since the last restore               *)
(*   last    the operation of the last step                                *)
(***************************************************************************)
\* target elements of the container
NumTargets == 2

\* placeholderize calls between two restores
MaxCalls == 2

Targets == 1..NumTargets

Animations == {"glow", "wave"}

\* options.variant: '' or a theme colour
Variants == {"", "info"}

\* the data-original-* values of an element that carries none
NoData == [content |-> "", classes |-> {}, width |-> "", src |-> ""]

\* the elements a page may hold: text elements, buttons, links styled as buttons
\* (with aria-disabled when they are disabled) and images
TargetElements ==
  {t \in [tag : {"p", "button", "a", "img"}, content : {"original"},
          classes : SUBSET {"btn", "lead"}, width : {"", "10em"},
          disabled : BOOLEAN, aria : {NoAttr, "true"}, alt : {NoAttr, "pic"},
          src : {"", "a.png"}, visible : BOOLEAN, saved : {{}}, data : {NoData}] :
     /\ ("btn" \in t.classes) = (t.tag = "a")
     /\ t.disabled => t.tag = "button"
     /\ (t.alt # NoAttr \/ t.src # "") => t.tag = "img"
     /\ t.tag = "img" => (t.src # "" /\ t.aria = NoAttr)
     /\ t.width # "" => t.tag \in {"button", "a"}}

\* target.closest('.placeholder-glow, .placeholder-wave') of a child of the container
InPlaceholder(t) == t.classes \cap {"placeholder-glow", "placeholder-wave"} # {}

\* the selector of placeholderize, for the elements of the model
IsTarget(t) == t.tag \in {"p", "button", "a", "img"} \/ "btn" \in t.classes

\* the div that takes the place of an img
ImagePlaceholder(t) ==
  [tag |-> "div", content |-> "", classes |-> t.classes \cup {"placeholder"},
   width |-> "px", disabled |-> FALSE, aria |-> NoAttr, alt |-> NoAttr, src |-> "",
   visible |-> TRUE, saved |-> {"element", "src"},
   data |-> [NoData EXCEPT !.src = t.src]]

\* if (!target.hasAttribute('data-original-content')) { ... }
Save(t, isButton) ==
  IF "content" \in t.saved
    THEN t
    ELSE [t EXCEPT !.saved = @ \cup {"content"}
                            \cup (IF isButton THEN {"classes", "width"} ELSE {})
                            \cup (IF t.tag = "button" /\ t.disabled THEN {"disabled"} ELSE {}),
                   !.data = [@ EXCEPT !.content = t.content,
                                      !.classes = IF isButton THEN t.classes ELSE @,
                                      !.width = IF isButton THEN t.width ELSE @]]

\* the callback of targets.forEach in placeholderize
PlaceholderizeTarget(t, animation, variant) ==
  LET isButton == "btn" \in t.classes \/ t.tag = "button"
      bg == IF variant # "" THEN {"bg-" \o variant} ELSE {}
      t1 == Save(t, isButton)
      t2 == [t1 EXCEPT !.content = "", !.classes = @ \cup {"placeholder-" \o animation}]
  IN IF ~IsTarget(t) \/ InPlaceholder(t) \/ ~t.visible THEN t
     ELSE IF t.tag = "img"
       THEN (IF "src" \in t.saved THEN t ELSE ImagePlaceholder(t))
     ELSE IF isButton
       THEN [t2 EXCEPT !.classes = @ \cup {"placeholder", "disabled"} \cup bg,
                       !.aria = "true",
                       !.disabled = (t.tag = "button") \/ @,
                       !.width = "px"]
     ELSE [t2 EXCEPT !.content = "placeholder"]

\* BsPlaceholder.placeholderize(element, options)
placeholderize(els, animation, variant) ==
  [i \in Targets |-> PlaceholderizeTarget(els[i], animation, variant)]

\* the callback of textTargets.forEach in restore
RestoreText(t) ==
  IF "content" \notin t.saved THEN t
  ELSE [t EXCEPT
          !.content = t.data.content,
          !.classes = IF "classes" \in t.saved
                        THEN t.data.classes
                        ELSE @ \ {"placeholder-glow", "placeholder-wave"},
          !.width = IF "width" \in t.saved THEN t.data.width ELSE @,
          !.aria = NoAttr,
          !.disabled = IF t.tag = "button" THEN "disabled" \in t.saved ELSE @,
          !.saved = @ \ ({"content", "classes", "width"}
                           \cup (IF t.tag = "button" THEN {"disabled"} ELSE {})),
          !.data = [@ EXCEPT !.content = "", !.classes = {}, !.width = ""]]

\* the callback of imgTargets.forEach in restore: a new img with the class list and
\* the src of the placeholder
RestoreImage(t) ==
  IF "element" \notin t.saved THEN t
  ELSE [tag |-> "img", content |-> "original", classes |-> t.classes \ {"placeholder"},
        width |-> "", disabled |-> FALSE, aria |-> NoAttr, alt |-> NoAttr,
        src |-> t.data.src, visible |-> t.visible, saved |-> {}, data |-> NoData]

\* BsPlaceholder.restore(element)
restore(els) == [i \in Targets |-> RestoreImage(RestoreText(els[i]))]

InitPlaceholder ==
  /\ w = NoPre
  /\ call = NoCall
  /\ sl = IdleSlots
  /\ doc = IdleDoc
  /\ mc = IdleMain
  /\ th = IdleTheme
  /\ tb = IdleBatch
  /\ lb = IdleButton
  /\ \E els \in [Targets -> TargetElements] :
       ph = [pc |-> "run", els |-> els, orig |-> els, calls |-> 0, last |-> "none"]

CallPlaceholderize ==
  \E animation \in Animations :
    \E variant \in Variants :
      /\ ph.calls < MaxCalls
      /\ ph' = [ph EXCEPT !.els = placeholderize(ph.els, animation, variant),
                          !.orig = IF ph.calls = 0 THEN ph.els ELSE @,
                          !.calls = @ + 1,
                          !.last = "placeholderize"]
      /\ UNCHANGED <<w, call, sl, doc, mc, th, tb, lb>>

CallRestore ==
  /\ ph.last # "restore"
  /\ ph' = [ph EXCEPT !.els = restore(ph.els), !.calls = 0, !.last = "restore"]
  /\ UNCHANGED <<w, call, sl, doc, mc, th, tb, lb>>

NextPlaceholder ==
  \/ CallPlaceholderize
  \/ CallRestore

SpecPlaceholder == InitPlaceholder /\ [][NextPlaceholder]_vars


(***************************************************************************)
(* Claims about the lifecycle (checked under Spec).                        *)
(***************************************************************************)
\* what the last call changed
Built == w.builds - call.pre.builds
Threw == w.error /\ ~call.pre.error

\* C1: without a force re-render (reinit), whatever the interleaving of
\* connectedCallback, disconnectedCallback, method calls and timer firings, the
\* body of _render after the _initialized guard runs at most once, and it has run
\* exactly once as soon as the instance is initialized.
C1_IdempotentMaterialization ==
  w.reinits = 0 => (w.builds <= 1 /\ (w.initialized <=> w.builds = 1))

\* a materialized instance that was detached and re-attached while a timer scheduled
\* by an earlier, repeated connectedCallback is still pending
C1_Witness ==
  w.reinits = 0 /\ w.builds = 1 /\ w.timers >= 1 /\ w.cycled /\ w.attached

\* C2: with the library present, show, hide or toggle called on an attached instance
\* before its deferred timer has fired materializes the instance inside the call and
\* is delegated to a live plugin object.
C2_NoSilentNoOp ==
  (/\ call.op \in {"show", "hide", "toggle"}
   /\ call.pre.lib
   /\ call.pre.attached
   /\ ~call.pre.initialized
   /\ call.pre.timers > 0)
    => (w.initialized /\ Built = 1 /\ call.reached # 0)

\* the methods that need the plugin: every pass-through method but hide and the
\* position updates
NeedsPlugin == AllMethods \ {"hide", "handleUpdate", "update"}

\* C3: with the library present, after materialize -> detach -> re-attach the next
\* call of a method that needs the plugin builds nothing, and runs against a live
\* handle, newly created (or fetched from the library's registry) when the stored
\* one was null.
C3_ReattachmentSafety ==
  (/\ call.op \in NeedsPlugin
   /\ call.pre.lib
   /\ call.pre.attached
   /\ call.pre.initialized
   /\ call.pre.cycled)
    => (/\ Built = 0
        /\ call.reached # 0
        /\ w.handle = call.reached
        /\ (call.pre.handle = 0 =>
              (call.reached > Len(call.pre.plugins) \/ call.reached = call.pre.registry)))

\* C8: dispose() without a handle changes nothing, no dispose() raises an error,
\* the stored handle is null after each dispose(), and no plugin object has its
\* dispose invoked more than once.
C8_DisposalIdempotence ==
  /\ \A p \in 1..Len(w.plugins) : w.plugins[p] # "redisposed"
  /\ call.op = "dispose" =>
       (/\ ~Threw
        /\ w.handle = 0
        /\ (call.pre.handle = 0 => [w EXCEPT !.touched = call.pre.touched] = call.pre))

\* C10: while the library is absent no handler raises an error, no plugin object is
\* ever constructed, the handle is null, and the markup is still materialized: by the
\* deferred timer of an attached instance, or by a method that ensures it.
C10_MissingLibrary ==
  ~w.lib =>
    (/\ ~w.error
     /\ w.plugins = <<>>
     /\ w.handle = 0
     /\ (w.initialized <=> w.builds >= 1)
     /\ (w.attached /\ w.timers = 0 => w.initialized)
     /\ (call.op \in AllMethods /\ Ensures(w.kind, call.op) => w.initialized))

\* without the library: a show() on a materialized, detached and re-attached instance
C10_Witness ==
  ~w.lib /\ call.op = "show" /\ w.initialized /\ w.cycled /\ w.attached

\* the plugin objects of the instance's node that are live
Live == {p \in 1..Len(w.plugins) : w.plugins[p] = "live"}

\* C11: at most one of the plugin objects an instance constructed itself is live at
\* any time: each construction (by _render, by an _ensure helper, by reinit, by a
\* show() that overtakes the deferred render) finds every earlier one disposed.
C11_OneLiveHandlePerInstance ==
  Cardinality(Live \cap w.own) <= 1

\* the instance has constructed a second plugin object, which it holds, live
C11_Witness ==
  /\ Cardinality(w.own) >= 2
  /\ w.handle \in Live \cap w.own
  /\ call.op \in {"reinit", "show"}

\* C12: at most one live plugin object exists for the node the component binds its
\* plugin to, the objects made by the library's get-or-create lookup included.
C12_OneHandlePerNode ==
  Cardinality(Live) <= 1

\* C16: when the completion callback of a tooltip's hide transition fires after the
\* plugin object was disposed (by dispose(), disconnectedCallback or the static
\* BsTooltip.dispose), it returns early and no error is raised.
C16_DisposalDuringTransition ==
  (call.op = "hideComplete" /\ call.pre.plugins[call.reached] # "live") => ~Threw

\* C13: disconnectedCallback on an instance that holds a handle invokes the dispose of
\* that handle once, without an error, and nulls the stored reference; it leaves
\* _initialized and the generated markup as they were, and a connectedCallback on a
\* materialized instance schedules and builds nothing.
C13_DetachEffectAndFrame ==
  /\ (call.op = "disconnectedCallback" /\ call.pre.handle # 0) =>
       (/\ ~Threw
        /\ w.handle = 0
        /\ w.plugins[call.pre.handle] = "disposed"
        /\ w.initialized = call.pre.initialized
        /\ Built = 0)
  /\ (call.op = "connectedCallback" /\ call.pre.initialized) =>
       (/\ w.timers = call.pre.timers
        /\ Built = 0
        /\ w.initialized)

\* C14: reinit() returns without an error with _initialized true and the markup
\* step of _render run once more; with the library present the instance then holds
\* one live handle, constructed during the call and so distinct from the handle held
\* before, which is disposed; with the library absent the handle is null.
C14_ForceRerender ==
  call.op = "reinit" =>
    (/\ ~Threw
     /\ w.initialized
     /\ Built = 1
     /\ call.pre.lib =>
          (/\ w.handle \in Live
           /\ w.handle > Len(call.pre.plugins)
           /\ Live \cap w.own = {w.handle}
           /\ call.pre.handle # 0 => w.plugins[call.pre.handle] = "disposed")
     /\ ~call.pre.lib => w.handle = 0)

(***************************************************************************)
(* Claims about the redistribution (checked under SpecSlots).              *)
(***************************************************************************)
Rendered == sl.pc = "rendered"

\* the places (region, position) of the generated markup that hold original child i
Places(i) ==
  UNION {{<<region, j>> : j \in {n \in 1..Len(sl.regions[region]) :
                                     sl.regions[region][n] = Child(i)}} :
         region \in DOMAIN sl.regions}

RegionsWith(i) == {pl[1] : pl \in Places(i)}

\* C4: after _render of a bs-modal, bs-alert, bs-card, bs-toast or
\* bs-accordion-item every original child is present exactly once in the generated
\* markup, in a region that was not removed: none is dropped, none is duplicated.
C4_RedistributionComplete ==
  (Rendered /\ sl.kind \in {"bs-modal", "bs-alert", "bs-card", "bs-toast", "bs-accordion-item"})
    => \A i \in 1..Len(sl.children) :
         /\ Cardinality(Places(i)) = 1
         /\ RegionsWith(i) \cap sl.removed = {}

\* C5: after _render every original child is in exactly one target region, and two
\* original children of one region stand there in their original order.
C5_OrderPreserved ==
  Rendered =>
    /\ \A i \in 1..Len(sl.children) : Cardinality(RegionsWith(i)) = 1
    /\ \A region \in DOMAIN sl.regions :
         \A j, n \in 1..Len(sl.regions[region]) :
           (/\ j < n
            /\ sl.regions[region][j].k = "child"
            /\ sl.regions[region][n].k = "child")
             => sl.regions[region][j].id < sl.regions[region][n].id

\* the regions a marked child overrides, with the mark that selects them
OverrideRegions(kind) ==
  CASE kind = "bs-modal" -> {"title"}
    [] kind = "bs-alert" -> {"heading"}
    [] kind = "bs-card" -> {"title", "subtitle", "image-top", "image-bottom"}
    [] kind = "bs-accordion-item" -> {"header"}
    [] OTHER -> {}

\* the children marked for the region (the region's name is its mark)
MarkedFor(region) ==
  {i \in 1..Len(sl.children) : Slotted(sl.children[i]) /\ sl.children[i].mark = region}

Scenario ==
  /\ sl.kind = "bs-modal"
  /\ Len(sl.children) = 3
  /\ sl.children[1] = [node |-> "element", mark |-> "footer"]
  /\ sl.children[2] = [node |-> "element", mark |-> "other"]
  /\ ~Slotted(sl.children[3])

\* C7: a bs-modal with the children (slot="footer", an unknown slot value, unmarked)
\* has, after attach and the deferred render, a footer region holding exactly the
\* first child and a body region holding the second and third in that order; any
\* child with a mark that names no region of the modal is in the body.
C7_ModalSlotRouting ==
  (Rendered /\ sl.kind = "bs-modal") =>
    /\ Scenario =>
         /\ "footer" \notin sl.removed
         /\ sl.regions["footer"] = <<Child(1)>>
         /\ sl.regions["body"] = <<Child(2), Child(3)>>
    /\ \A i \in 1..Len(sl.children) :
         (Slotted(sl.children[i]) /\ sl.children[i].mark \notin MarksOf("bs-modal"))
           => Has(sl.regions["body"], Child(i))

C7_Witness ==
  Rendered /\ Scenario /\ sl.regions["footer"] = <<Child(1)>>

\* C17: in a rendered bs-toast with at least one child marked slot="header", the
\* header holds the marked children and neither the title element nor the time
\* element generated from the attributes.
C17_ToastHeaderOverrides ==
  (Rendered /\ sl.kind = "bs-toast" /\ MarkedFor("header") # {}) =>
    (/\ sl.regions["header"] # <<>>
     /\ \A i \in MarkedFor("header") : Has(sl.regions["header"], Child(i))
     /\ sl.regions["title"] = <<>>
     /\ sl.regions["time"] = <<>>)

\* C18: the .modal element of a rendered bs-modal carries the class fade exactly
\* when the fade attribute, absent or "" or "true" or "false", is not "false".
C18_ModalFade ==
  (Rendered /\ sl.kind = "bs-modal") =>
    (("fade" \in sl.classes) <=> (sl.fade # "false"))

(***************************************************************************)
(* Claims about the shared resources (checked under SpecRes).              *)
(***************************************************************************)
\* how many copies of element e _ensureResources has appended
Copies(e) == Cardinality({j \in 1..Len(doc.head) : doc.head[j] = e})

\* the document holds an element of the page that passes the existence check of e
PageHas(e) ==
  CASE e = StyleElement -> \E x \in doc.page : x.id = "bs-code-block-styles"
    [] e = HljsCssLink -> \E x \in doc.page : x.tag = "link" /\ "highlight.js" \in x.url
    [] e = IconsCssLink -> \E x \in doc.page : x.tag = "link" /\ "bootstrap-icons" \in x.url
    [] e = HljsScript -> \E x \in doc.page : x.tag = "script" /\ "highlight.js" \in x.url

\* C9: however many bs-code-block instances are attached and in whatever order their
\* deferred renders run, the document holds at most one copy of each element that
\* _ensureResources injects, and none where the page already holds the resource.
C9_ResourceDedup ==
  \A e \in Injected :
    /\ Copies(e) <= 1
    /\ PageHas(e) => Copies(e) = 0

\* every instance has rendered on a page that held none of the resources, and each
\* of the four resources is in the document once
C9_Witness ==
  /\ doc.pc = "run"
  /\ doc.page = {}
  /\ \A b \in Blocks : doc.blocks[b].pc = "rendered"
  /\ \A e \in Injected : Copies(e) = 1

(***************************************************************************)
(* Claims about main-container (checked under FairSpecMain).               *)
(***************************************************************************)
\* C15: a polling interval that a component has started is eventually cleared,
\* whether or not the condition it waits for ever becomes true.
C15_PollingGivesUp ==
  mc.polling ~> ~mc.polling

\* the content is revealed: no overlay, no polling, the host opaque
Revealed == ~mc.overlay /\ ~mc.polling /\ mc.opacity = "1"

\* C20: if from some point on the instance stays attached and no undefined custom
\* element remains, then eventually the spinner overlay is out of the document, the
\* polling interval is cleared and the host's opacity is 1.
C20_EventuallyRevealed ==
  <>[](mc.attached /\ ~mc.undefinedEls) => <>Revealed

(***************************************************************************)
(* Claims about theme-toggle (checked under SpecTheme).                    *)
(***************************************************************************)
\* C19: a click on a materialized theme-toggle whose state is light, dark or auto
\* moves it to the successor in light -> dark -> auto -> light; every click writes
\* the new state to localStorage under the instance's storage key, applies it to the
\* root's data-bs-theme (auto as the system's preference) and dispatches exactly one
\* bs-theme-change event carrying the new state and the key; three successive clicks
\* on an instance in one of the three states bring it back to the state it started in.
C19_ThemeCycle ==
  /\ th.last.who # 0 =>
       LET t == th.inst[th.last.who]
           pre == th.last.pre
       IN /\ pre = "light" => t.state = "dark"
          /\ pre = "dark" => t.state = "auto"
          /\ pre = "auto" => t.state = "light"
          /\ th.storage[StorageKey(t)] = t.state
          /\ th.root = ActiveTheme(t.state, th.systemDark)
          /\ th.last.events = <<[theme |-> t.state, storageKey |-> StorageKey(t)]>>
  /\ (Len(th.trail.states) = 4 /\ th.trail.states[1] \in {"light", "dark", "auto"}) =>
       th.trail.states[4] = th.trail.states[1]

\* the third of three successive clicks on an instance that started in auto, while a
\* second instance with the same key listens
C19_Witness ==
  /\ th.last.who # 0
  /\ Len(th.trail.states) = 4
  /\ th.trail.states[1] = "auto"
  /\ \E j \in Toggles : j # th.last.who /\ th.inst[j].listening
                         /\ StorageKey(th.inst[j]) = StorageKey(th.inst[th.last.who])

\* the instances that are materialized and in the document
OnPage == {j \in Toggles : th.inst[j].attached /\ th.inst[j].initialized}

\* C24: after any sequence of clicks, attach, detach and re-attach, every theme-toggle
\* that is materialized and attached has a _state equal to the preference stored in
\* localStorage under its storage key (auto when nothing is stored).
C24_InstancesInSync ==
  \A j \in OnPage :
    th.inst[j].state = StoredOrAuto(th.storage, StorageKey(th.inst[j]))

\* C28: when the system's colour scheme preference changes, data-bs-theme becomes the
\* new preference if a materialized attached theme-toggle is in state auto and stays
\* as it is otherwise (instances in light or dark, detached instances); no instance
\* changes its _state and the stored preferences stay.
C28_SystemPreference ==
  [][(th.pc = "run" /\ th'.systemDark # th.systemDark) =>
       /\ (\E j \in OnPage : th.inst[j].state = "auto") =>
            th'.root = (IF th'.systemDark THEN "dark" ELSE "light")
       /\ (~ \E j \in OnPage : th.inst[j].state = "auto") => th'.root = th.root
       /\ th'.inst = th.inst
       /\ th'.storage = th.storage]_vars

\* C29: whatever localStorage holds and whatever events arrive, the _state of every
\* theme-toggle is light, dark or auto and the data-bs-theme the component wrote is
\* light or dark.
C29_StateDomain ==
  /\ \A j \in Toggles : th.inst[j].state \in {"light", "dark", "auto"}
  /\ th.root \in {NoAttr, "light", "dark"}

\* C23: a plugin-backed instance that is detached, and on which no method has been
\* called since its disconnectedCallback ran, holds no plugin handle: in particular
\* when it was attached and detached before its timer fired and the timer fires
\* while it is detached.
C23_NoHandleWhileDetached ==
  (~w.attached /\ ~w.touched) => w.handle = 0

\* the plugin objects of element e that are live
LiveOf(e) == {p \in 1..Len(tb.els[e].plugins) : tb.els[e].plugins[p] = "live"}

\* C22: with the library present, after BsTooltip.initAll(container) every bs-tooltip
\* inside the container is initialized and its handle is its one live plugin; after
\* BsTooltip.disposeAll(container) every bs-tooltip inside has a null handle and no
\* element with data-bs-toggle="tooltip" inside has a live plugin registered; the
\* bs-tooltip instances outside keep their handle and _initialized flag.
C22_BatchOperations ==
  (tb.pc = "run" /\ tb.lib /\ tb.last.op # "none") =>
    /\ ~tb.last.threw
    /\ tb.last.op = "initAll" =>
         \A e \in ComponentsIn(tb) :
           /\ tb.els[e].initialized
           /\ tb.els[e].handle # 0
           /\ LiveOf(e) \cap tb.els[e].own = {tb.els[e].handle}
    /\ tb.last.op = "disposeAll" =>
         /\ \A e \in ComponentsIn(tb) : tb.els[e].handle = 0
         /\ \A e \in Triggers(tb) : tb.els[e].registry = 0
    /\ \A e \in Components \ ComponentsIn(tb) :
         /\ tb.els[e].handle = tb.last.pre[e].handle
         /\ tb.els[e].initialized = tb.last.pre[e].initialized

\* C25: a user's click on a loading-button that is loading, or whose internal button
\* is disabled, is cancelled (default prevented, propagation stopped at once) and
\* schedules no timer; at most one click reaches the listeners outside the component
\* between two runs of enable().
C25_ClickSuppression ==
  /\ (lb.last.op = "click" /\ (lb.last.preLoading \/ lb.last.preDisabled)) =>
       /\ lb.last.prevented
       /\ lb.last.stopped = "immediate"
       /\ ~lb.last.delivered
       /\ lb.timers = lb.last.preTimers
  /\ lb.sinceEnable <= 1

\* a click while the button is loading and its timer is pending
C25_Witness ==
  lb.last.op = "click" /\ lb.last.preLoading /\ lb.timers > 0

\* C26: whenever a click on the internal button reaches a bubbling listener of the
\* host or of an ancestor, _isLoading is true and the button shows the spinner.
C26_LoadingBeforeListeners ==
  lb.last.delivered => (lb.isLoading /\ lb.content = "spinner")

\* C27: once enable() has run and every timer scheduled before it has fired, with no
\* click of the user in between, the internal button is not disabled, _isLoading and
\* _isSimulatingClick are false and the button shows its original content.
C27_EnableIsFinal ==
  (lb.pc = "run" /\ lb.clean /\ lb.timers = 0) =>
    (~lb.disabled /\ ~lb.isLoading /\ ~lb.simulating /\ lb.content = "original")

\* C30: the internal button is created once and originalContent captured once,
\* whatever the sequence of connectedCallback and disconnectedCallback; while the
\* instance is attached exactly one click handler of the component is registered on
\* the internal button and its pagehide and beforeunload handlers on window; while
\* it is detached none of them is registered and the instance is not loading.
C30_LifecycleSymmetry ==
  lb.pc = "run" =>
    /\ lb.renders = (IF lb.button THEN 1 ELSE 0)
    /\ lb.captures = lb.renders
    /\ lb.attached =>
         (lb.button /\ Cardinality(lb.btnL) = 1 /\ lb.winL = WindowEvents)
    /\ ~lb.attached =>
         (lb.btnL = {} /\ lb.winL = {} /\ ~lb.isLoading /\ lb.content = "original")

\* the instance was detached while it was loading, with its timer still pending
C30_Witness ==
  ~lb.attached /\ lb.button /\ lb.timers > 0 /\ lb.renders = 1

\* C21: BsPlaceholder.restore after one or more BsPlaceholder.placeholderize calls
\* returns every element of the container to its state before the first of them
\* (content, class list, inline width, disabled, aria-disabled, and for an image its
\* attributes) and leaves no data-original-* attribute; a placeholderize that finds
\* content already saved does not overwrite it with placeholder content.
C21_PlaceholderRoundTrip ==
  ph.pc = "run" =>
    /\ ph.last = "restore" => ph.els = ph.orig
    /\ ph.last = "restore" => \A i \in Targets : ph.els[i].saved = {}
    /\ ph.last = "placeholderize" =>
         \A i \in Targets :
           "content" \in ph.els[i].saved => ph.els[i].data.content = ph.orig[i].content

====
